---- MODULE Spec2Model ----
(***************************************************************************)
(* PyBank mortgage engine: the chain of stateless formula evaluators       *)
(*   BasicCalculator -> FinancialCalculator -> MortgageCalculator          *)
(*                                          -> AffordabilityCalculator      *)
(* in its two copies, src/pybank/pybank/calculators ("pybank") and         *)
(* src/calculators ("calculators").                                        *)
(*                                                                         *)
(* Numbers.  A Python float is modelled by a rational scaled by a power of *)
(* two, <<n, d, e>> = (n / d) * 2^e.  Sums, products and quotients are     *)
(* exact, except that a sum absorbs a term below half a unit in the last   *)
(* place of the other (1 + 2^-60 = 1), as the 53-bit significand of a      *)
(* double does.  Within the bounds below every other intermediate value is *)
(* a ratio of integers under 2^31, which a double carries with a relative  *)
(* error near 1e-16; that error can change the result of round(x, 2) only  *)
(* when x lies exactly half-way between two cents.  There the double falls *)
(* on either side of the tie (round(0.06/12, 2) = 0.01, round(0.18/12, 2)  *)
(* = 0.01, round(1.5/12, 2) = 0.12), so the direction of a tie is an input *)
(* of every operation that rounds (the parameter "up").                    *)
(*                                                                         *)
(* Errors.  Every error of the code is a ValueError; it is modelled by its *)
(* message, and the three kinds of the design (InvalidInput, Unaffordable, *)
(* DivisionByZero) are classes of messages.                                *)
(***************************************************************************)
EXTENDS Integers, Sequences, FiniteSets, TLC

VARIABLES impl, op, args, outcome, heap, frame, local

vars == <<impl, op, args, outcome, heap, frame, local>>

\* the state of the concurrent callers (see Callers below): the objects they
\* share, the call each is in, and the local variables of that call
callerVars == <<heap, frame, local>>

(***************************************************************************)
(* Bounds of the model.                                                    *)
(***************************************************************************)
\* principals and payments range over -1 .. MaxCents cents
MaxCents == 24
\* monthly incomes range over -1 .. MaxIncomeCents cents
MaxIncomeCents == 6
\* monthly debts range over -1 .. MaxDebtCents cents
MaxDebtCents == 2
\* annual rates range over -1 .. MaxRateSteps steps of 6 (monthly: of 1/2)
MaxRateSteps == 2
\* debt-to-income ratios range over -1 .. MaxDtiQuarters quarters
MaxDtiQuarters == 5
\* terms range over -1 .. MaxYears years
MaxYears == 1
\* operands of the arithmetic primitives range over -MaxOperand .. MaxOperand halves
MaxOperand == 3
\* the smallest positive annual rate is 12 * 2^-TinyBits (monthly: 2^-TinyBits)
TinyBits == 60
\* callers that call the operations concurrently
NumCallers == 2
\* TLC's integers are 32 bit: a call is modelled only when the integers its
\* exact arithmetic needs stay under ArithLimit (see InRange)
ArithLimit == 2000000000

(***************************************************************************)
(* Float arithmetic.  A number is <<n, d, e>>, the value (n / d) * 2^e     *)
(* with n / d in lowest terms, d > 0, and e = 0 when n = 0.                *)
(***************************************************************************)
\* bits of the significand of a Python float (an IEEE 754 double)
MantissaBits == 53

Abs(i) == IF i < 0 THEN -i ELSE i

RECURSIVE GCD(_, _)
GCD(a, b) == IF b = 0 THEN a ELSE GCD(b, a % b)

RECURSIVE Pow2(_)
Pow2(k) == IF k = 0 THEN 1 ELSE 2 * Pow2(k - 1)

Num(x) == x[1]
Den(x) == x[2]
Exp(x) == x[3]

\* (n / d) * 2^e in normal form, d # 0
Scaled(n, d, e) ==
    LET g == GCD(Abs(n), Abs(d))
        s == IF d < 0 THEN -1 ELSE 1
    IN  IF n = 0 THEN <<0, 1, 0>>
        ELSE <<s * (n \div g), s * (d \div g), e>>

\* the rational n / d, d # 0
Rat(n, d) == Scaled(n, d, 0)

Zero == <<0, 1, 0>>
One == <<1, 1, 0>>
FromInt(i) == <<i, 1, 0>>

RIsZero(x) == Num(x) = 0
RPos(x) == Num(x) > 0
RNegative(x) == Num(x) < 0
RNeg(x) == <<-Num(x), Den(x), Exp(x)>>
RAbs(x) == <<Abs(Num(x)), Den(x), Exp(x)>>

\* x + y for two numbers of the same exponent: the exact sum
AddAligned(x, y) ==
    LET g == GCD(Den(x), Den(y))
    IN  Scaled(Num(x) * (Den(y) \div g) + Num(y) * (Den(x) \div g),
               (Den(x) \div g) * Den(y), Exp(x))

\* |small| is under 2^-(MantissaBits + 1) of |big|, less than half a unit in
\* the last place of big: the float sum big + small rounds to big
Absorbed(big, small) ==
    LET s == Exp(big) - Exp(small)
        l == Abs(Num(small)) * Den(big)
        r == Abs(Num(big)) * Den(small)
    IN  IF s > MantissaBits THEN l < r * Pow2(s - MantissaBits - 1)
        ELSE l * Pow2(MantissaBits + 1 - s) < r

\* big + small, Exp(big) > Exp(small)
AddScaled(big, small) ==
    IF Absorbed(big, small) THEN big
    ELSE AddAligned(big, <<Num(small),
                           Den(small) * Pow2(Exp(big) - Exp(small)),
                           Exp(big)>>)

\* the float x + y
RAdd(x, y) ==
    IF RIsZero(x) THEN y
    ELSE IF RIsZero(y) THEN x
    ELSE IF Exp(x) = Exp(y) THEN AddAligned(x, y)
    ELSE IF Exp(x) > Exp(y) THEN AddScaled(x, y)
    ELSE AddScaled(y, x)

RSub(x, y) == RAdd(x, RNeg(y))

\* x * y, cancelling across before multiplying
RMul(x, y) ==
    LET g1 == GCD(Abs(Num(x)), Den(y))
        g2 == GCD(Abs(Num(y)), Den(x))
    IN  Scaled((Num(x) \div g1) * (Num(y) \div g2),
               (Den(x) \div g2) * (Den(y) \div g1),
               Exp(x) + Exp(y))

\* 1 / y, y # 0
RInv(y) == Scaled(Den(y), Num(y), -Exp(y))

\* x / y, y # 0
RQuot(x, y) == RMul(x, RInv(y))

\* x ** n for an integer n >= 0, by repeated squaring
RECURSIVE RPow(_, _)
RPow(x, n) ==
    IF n = 0 THEN One
    ELSE LET h == RPow(x, n \div 2)
         IN  IF n % 2 = 0 THEN RMul(h, h) ELSE RMul(x, RMul(h, h))

\* x <= y
RLe(x, y) == ~RPos(RSub(x, y))
\* x < y
RLt(x, y) == RNegative(RSub(x, y))

\* x with exponent 0
Unscaled(x) ==
    IF Exp(x) >= 0 THEN Scaled(Num(x) * Pow2(Exp(x)), Den(x), 0)
    ELSE Scaled(Num(x), Den(x) * Pow2(-Exp(x)), 0)

\* Python's round(x, 2): the multiple of 0.01 nearest to x; when x is
\* exactly half-way between two cents, the upper one when up, the lower
\* one otherwise (see the note on numbers above)
Round2(x, up) ==
    LET c == RMul(Unscaled(x), FromInt(100))
        q == Num(c) \div Den(c)
        r == Num(c) % Den(c)
        cents == IF 2 * r > Den(c) THEN q + 1
                 ELSE IF 2 * r < Den(c) THEN q
                 ELSE IF up THEN q + 1 ELSE q
    IN  Rat(cents, 100)

(***************************************************************************)
(* Outcomes of a call: a returned value, or a raised ValueError.           *)
(***************************************************************************)
Return(v) == [ok |-> TRUE, val |-> v, err |-> ""]
Raise(msg) == [ok |-> FALSE, val |-> Zero, err |-> msg]

DivideByZeroMsg == "Cannot divide by zero."
NegativeRateMsg == "Interest rate cannot be negative."
TermMsg == "Loan term must be greater than zero."
PrincipalMsg == "Loan principal must be greater than zero."
PaymentMsg == "Monthly payment must be greater than zero."
IncomeMsg == "Monthly income must be greater than zero."
DebtMsg == "Monthly debt cannot be negative."
DtiMsg == "DTI must be between 0 and 1."
UnaffordableMsg == "Borrower cannot afford additional housing payment."

(***************************************************************************)
(* BasicCalculator (src/calculators/BasicCalculator.py; the pybank copy    *)
(* imports a module of the same name and interface).                       *)
(***************************************************************************)
multiply(x, y) == Return(RMul(x, y))

\* mutant: the guard lets 0 / 0 through, as 0
divide_zero_by_zero(x, y) ==
    IF RIsZero(y) /\ ~RIsZero(x) THEN Raise(DivideByZeroMsg)
    ELSE IF RIsZero(y) THEN Return(Zero)
    ELSE Return(RQuot(x, y))

divide(x, y) ==
    IF RIsZero(y) THEN Raise(DivideByZeroMsg)
    ELSE Return(RQuot(x, y))

(***************************************************************************)
(* FinancialCalculator, pybank copy: validates its argument.               *)
(***************************************************************************)
calculate_monthly_interest_rate(annual_interest_rate) ==
    IF RNegative(annual_interest_rate) THEN Raise(NegativeRateMsg)
    ELSE divide(annual_interest_rate, FromInt(12))

months_from_years(years) ==
    IF years <= 0 THEN Raise(TermMsg)
    ELSE multiply(FromInt(years), FromInt(12))

(***************************************************************************)
(* FinancialCalculator, src/calculators copy: no validation.               *)
(***************************************************************************)
src_calculate_monthly_interest_rate(annual_interest_rate) ==
    divide(annual_interest_rate, FromInt(12))

src_months_from_years(years) ==
    multiply(FromInt(years), FromInt(12))

(***************************************************************************)
(* Models: frozen dataclasses, plain values.                               *)
(***************************************************************************)
Loan(principal, annual_interest_rate, years) ==
    [principal |-> principal,
     annual_interest_rate |-> annual_interest_rate,
     years |-> years]

Borrower(monthly_income, monthly_debt) ==
    [monthly_income |-> monthly_income, monthly_debt |-> monthly_debt]

(***************************************************************************)
(* MortgageCalculator, pybank copy.                                        *)
(***************************************************************************)
\* mutant: the principal is checked with < where the code has <=
validate_loan_accepts_zero(loan) ==
    IF RNegative(loan.principal) THEN Raise(PrincipalMsg)
    ELSE IF RNegative(loan.annual_interest_rate) THEN Raise(NegativeRateMsg)
    ELSE IF loan.years <= 0 THEN Raise(TermMsg)
    ELSE Return(Zero)

\* returns None (modelled as Return(Zero)) or raises
_validate_loan(loan) ==
    IF ~RPos(loan.principal) THEN Raise(PrincipalMsg)
    ELSE IF RNegative(loan.annual_interest_rate) THEN Raise(NegativeRateMsg)
    ELSE IF loan.years <= 0 THEN Raise(TermMsg)
    ELSE Return(Zero)

monthly_payment(loan, up) ==
    LET valid == _validate_loan(loan)
        monthly_rate == calculate_monthly_interest_rate(loan.annual_interest_rate)
        months == months_from_years(loan.years)
        growth == RPow(RAdd(One, monthly_rate.val), Num(months.val))
        numerator == RMul(monthly_rate.val, growth)
        denominator == RSub(growth, One)
        multiplier == divide(numerator, denominator)
    IN  IF ~valid.ok THEN valid
        ELSE IF ~monthly_rate.ok THEN monthly_rate
        ELSE IF ~months.ok THEN months
        ELSE IF RIsZero(monthly_rate.val)
             THEN Return(Round2(RQuot(loan.principal, months.val), up))
        ELSE IF ~multiplier.ok THEN multiplier
        ELSE Return(Round2(RMul(loan.principal, multiplier.val), up))

\* mutant: the payment is checked with < where the code has <=
loan_amount_accepts_zero(payment, annual_interest_rate, years, up) ==
    LET monthly_rate == calculate_monthly_interest_rate(annual_interest_rate)
        months == months_from_years(years)
        growth == RPow(RAdd(One, monthly_rate.val), Num(months.val))
    IN  IF RNegative(payment) THEN Raise(PaymentMsg)
        ELSE IF RNegative(annual_interest_rate) THEN Raise(NegativeRateMsg)
        ELSE IF years <= 0 THEN Raise(TermMsg)
        ELSE IF ~monthly_rate.ok THEN monthly_rate
        ELSE IF ~months.ok THEN months
        ELSE IF RIsZero(monthly_rate.val)
             THEN Return(Round2(RMul(payment, months.val), up))
        ELSE Return(Round2(RQuot(RMul(payment, RSub(growth, One)),
                                 RMul(monthly_rate.val, growth)), up))

loan_amount(payment, annual_interest_rate, years, up) ==
    LET monthly_rate == calculate_monthly_interest_rate(annual_interest_rate)
        months == months_from_years(years)
        growth == RPow(RAdd(One, monthly_rate.val), Num(months.val))
    IN  IF ~RPos(payment) THEN Raise(PaymentMsg)
        ELSE IF RNegative(annual_interest_rate) THEN Raise(NegativeRateMsg)
        ELSE IF years <= 0 THEN Raise(TermMsg)
        ELSE IF ~monthly_rate.ok THEN monthly_rate
        ELSE IF ~months.ok THEN months
        ELSE IF RIsZero(monthly_rate.val)
             THEN Return(Round2(RMul(payment, months.val), up))
        ELSE Return(Round2(RQuot(RMul(payment, RSub(growth, One)),
                                 RMul(monthly_rate.val, growth)), up))

(***************************************************************************)
(* AffordabilityCalculator, pybank copy.                                   *)
(***************************************************************************)
DEFAULT_MAX_DTI == Rat(36, 100)

_validate_borrower(borrower) ==
    IF ~RPos(borrower.monthly_income) THEN Raise(IncomeMsg)
    ELSE IF RNegative(borrower.monthly_debt) THEN Raise(DebtMsg)
    ELSE Return(Zero)

\* mutant: a payment of exactly 0 is let through (< where the code has <=)
max_monthly_housing_payment_strict(borrower, max_dti, up) ==
    LET valid == _validate_borrower(borrower)
        max_total_debt == RMul(borrower.monthly_income, max_dti)
        max_housing_payment == RSub(max_total_debt, borrower.monthly_debt)
    IN  IF ~valid.ok THEN valid
        ELSE IF ~(RPos(max_dti) /\ RLe(max_dti, One)) THEN Raise(DtiMsg)
        ELSE IF RNegative(max_housing_payment) THEN Raise(UnaffordableMsg)
        ELSE Return(Round2(max_housing_payment, up))

\* mutant: the affordability check comes before the check of max_dti
max_monthly_housing_payment_dti_last(borrower, max_dti, up) ==
    LET valid == _validate_borrower(borrower)
        max_total_debt == RMul(borrower.monthly_income, max_dti)
        max_housing_payment == RSub(max_total_debt, borrower.monthly_debt)
    IN  IF ~valid.ok THEN valid
        ELSE IF ~RPos(max_housing_payment) THEN Raise(UnaffordableMsg)
        ELSE IF ~(RPos(max_dti) /\ RLe(max_dti, One)) THEN Raise(DtiMsg)
        ELSE Return(Round2(max_housing_payment, up))

max_monthly_housing_payment(borrower, max_dti, up) ==
    LET valid == _validate_borrower(borrower)
        max_total_debt == RMul(borrower.monthly_income, max_dti)
        max_housing_payment == RSub(max_total_debt, borrower.monthly_debt)
    IN  IF ~valid.ok THEN valid
        ELSE IF ~(RPos(max_dti) /\ RLe(max_dti, One)) THEN Raise(DtiMsg)
        ELSE IF ~RPos(max_housing_payment) THEN Raise(UnaffordableMsg)
        ELSE Return(Round2(max_housing_payment, up))

\* mutant: max_dti is not passed on, so the default always applies
max_loan_amount_default_dti(borrower, annual_interest_rate, years, max_dti, up1, up2) ==
    LET max_payment == max_monthly_housing_payment(borrower, DEFAULT_MAX_DTI,
                                                   up1)
    IN  IF ~max_payment.ok THEN max_payment
        ELSE loan_amount(max_payment.val, annual_interest_rate, years, up2)

\* mutant: the rate and the years are checked before the affordability step
max_loan_amount_rate_first(borrower, annual_interest_rate, years, max_dti, up1, up2) ==
    LET max_payment == max_monthly_housing_payment(borrower, max_dti, up1)
    IN  IF RNegative(annual_interest_rate) THEN Raise(NegativeRateMsg)
        ELSE IF years <= 0 THEN Raise(TermMsg)
        ELSE IF ~max_payment.ok THEN max_payment
        ELSE loan_amount(max_payment.val, annual_interest_rate, years, up2)

max_loan_amount(borrower, annual_interest_rate, years, max_dti, up1, up2) ==
    LET max_payment == max_monthly_housing_payment(borrower, max_dti, up1)
    IN  IF ~max_payment.ok THEN max_payment
        ELSE loan_amount(max_payment.val, annual_interest_rate, years, up2)

(***************************************************************************)
(* MortgageCalculator and AffordabilityCalculator, src/calculators copy:   *)
(* the same text over the unvalidated unit conversions.                    *)
(***************************************************************************)
src_validate_loan(loan) ==
    IF ~RPos(loan.principal) THEN Raise(PrincipalMsg)
    ELSE IF RNegative(loan.annual_interest_rate) THEN Raise(NegativeRateMsg)
    ELSE IF loan.years <= 0 THEN Raise(TermMsg)
    ELSE Return(Zero)

src_monthly_payment(loan, up) ==
    LET valid == src_validate_loan(loan)
        monthly_rate == src_calculate_monthly_interest_rate(loan.annual_interest_rate)
        months == src_months_from_years(loan.years)
        growth == RPow(RAdd(One, monthly_rate.val), Num(months.val))
        numerator == RMul(monthly_rate.val, growth)
        denominator == RSub(growth, One)
        multiplier == divide(numerator, denominator)
    IN  IF ~valid.ok THEN valid
        ELSE IF ~monthly_rate.ok THEN monthly_rate
        ELSE IF ~months.ok THEN months
        ELSE IF RIsZero(monthly_rate.val)
             THEN Return(Round2(RQuot(loan.principal, months.val), up))
        ELSE IF ~multiplier.ok THEN multiplier
        ELSE Return(Round2(RMul(loan.principal, multiplier.val), up))

\* src_loan_amount relying on the unit conversion for the check of the rate
src_loan_amount_unchecked_rate(payment, annual_interest_rate, years, up) ==
    LET monthly_rate == src_calculate_monthly_interest_rate(annual_interest_rate)
        months == src_months_from_years(years)
        growth == RPow(RAdd(One, monthly_rate.val), Num(months.val))
    IN  IF ~RPos(payment) THEN Raise(PaymentMsg)
        ELSE IF years <= 0 THEN Raise(TermMsg)
        ELSE IF ~monthly_rate.ok THEN monthly_rate
        ELSE IF ~months.ok THEN months
        ELSE IF RIsZero(monthly_rate.val)
             THEN Return(Round2(RMul(payment, months.val), up))
        ELSE Return(Round2(RQuot(RMul(payment, RSub(growth, One)),
                                 RMul(monthly_rate.val, growth)), up))

src_loan_amount(payment, annual_interest_rate, years, up) ==
    LET monthly_rate == src_calculate_monthly_interest_rate(annual_interest_rate)
        months == src_months_from_years(years)
        growth == RPow(RAdd(One, monthly_rate.val), Num(months.val))
    IN  IF ~RPos(payment) THEN Raise(PaymentMsg)
        ELSE IF RNegative(annual_interest_rate) THEN Raise(NegativeRateMsg)
        ELSE IF years <= 0 THEN Raise(TermMsg)
        ELSE IF ~monthly_rate.ok THEN monthly_rate
        ELSE IF ~months.ok THEN months
        ELSE IF RIsZero(monthly_rate.val)
             THEN Return(Round2(RMul(payment, months.val), up))
        ELSE Return(Round2(RQuot(RMul(payment, RSub(growth, One)),
                                 RMul(monthly_rate.val, growth)), up))

src_validate_borrower(borrower) ==
    IF ~RPos(borrower.monthly_income) THEN Raise(IncomeMsg)
    ELSE IF RNegative(borrower.monthly_debt) THEN Raise(DebtMsg)
    ELSE Return(Zero)

src_max_monthly_housing_payment(borrower, max_dti, up) ==
    LET valid == src_validate_borrower(borrower)
        max_total_debt == RMul(borrower.monthly_income, max_dti)
        max_housing_payment == RSub(max_total_debt, borrower.monthly_debt)
    IN  IF ~valid.ok THEN valid
        ELSE IF ~(RPos(max_dti) /\ RLe(max_dti, One)) THEN Raise(DtiMsg)
        ELSE IF ~RPos(max_housing_payment) THEN Raise(UnaffordableMsg)
        ELSE Return(Round2(max_housing_payment, up))

src_max_loan_amount(borrower, annual_interest_rate, years, max_dti, up1, up2) ==
    LET max_payment == src_max_monthly_housing_payment(borrower, max_dti, up1)
    IN  IF ~max_payment.ok THEN max_payment
        ELSE src_loan_amount(max_payment.val, annual_interest_rate, years, up2)

(***************************************************************************)
(* Inputs of the calls.                                                    *)
(***************************************************************************)
Impls == {"pybank", "calculators"}
Amounts == {Rat(c, 100) : c \in -1 .. MaxCents}
Incomes == {Rat(c, 100) : c \in -1 .. MaxIncomeCents}
Debts == {Rat(c, 100) : c \in -1 .. MaxDebtCents}
TinyRate == Scaled(12, 1, -TinyBits)
Rates == {FromInt(6 * k) : k \in -1 .. MaxRateSteps} \cup {TinyRate}
Dtis == {Rat(k, 4) : k \in -1 .. MaxDtiQuarters}
Years == -1 .. MaxYears
Operands == {Rat(k, 2) : k \in -MaxOperand .. MaxOperand}

\* base ** n, or limit + 1 when that exceeds limit (base >= 1, n >= 0)
RECURSIVE SatPow(_, _, _)
SatPow(base, n, limit) ==
    IF n = 0 THEN 1
    ELSE LET p == SatPow(base, n - 1, limit)
         IN  IF p > limit \div base THEN limit + 1 ELSE p * base

\* The amortization formulas with 1 + r = a/b over n months handle integers
\* up to about a^n times the amount in cents.
InRange(annual_interest_rate, years) ==
    IF RNegative(annual_interest_rate) THEN TRUE
    ELSE IF years <= 0 THEN TRUE
    ELSE LET r == RQuot(annual_interest_rate, FromInt(12))
             a == Num(RAdd(One, r))
             limit == ArithLimit \div (4 * (MaxCents + 1) * a)
         IN  SatPow(a, 12 * years, limit) <= limit

(***************************************************************************)
(* The calls.  No operation keeps anything between calls, so a behaviour  *)
(* is one call: the state is the call made, its arguments and its outcome. *)
(***************************************************************************)
NoArgs == [none |-> TRUE]

(***************************************************************************)
(* Concurrent callers.  Each caller makes one call after the other; a call *)
(* runs statement by statement, interleaved with the calls of the others.  *)
(* All callers pass the same Loan and the same Borrower object (heap).     *)
(***************************************************************************)
Callers == 1 .. NumCallers

\* the objects the callers share
Heaps ==
    {[loan |-> Loan(Rat(24, 100), FromInt(6), 1),
      borrower |-> Borrower(Rat(6, 100), Zero)],
     [loan |-> Loan(Rat(5, 100), Zero, 1),
      borrower |-> Borrower(Rat(4, 100), Rat(1, 100))]}

\* the arguments of a call that are not objects
NoArg ==
    [payment |-> Zero, annual_interest_rate |-> Zero, years |-> 0,
     given |-> FALSE, max_dti |-> Zero, up1 |-> FALSE, up2 |-> FALSE,
     x |-> Zero, y |-> Zero]

\* a caller between calls; seen is the heap as it was when the call began
IdleFrame ==
    [op |-> "none", pc |-> "idle", arg |-> NoArg,
     seen |-> [loan |-> Loan(Zero, Zero, 0), borrower |-> Borrower(Zero, Zero)],
     outcome |-> Return(Zero)]

\* the local variables of a call, before any is assigned
NoLocals == [monthly_rate |-> Zero, months |-> Zero, max_housing_payment |-> Zero,
             max_payment |-> Zero]

CallersIdle ==
    /\ frame = [c \in Callers |-> IdleFrame]
    /\ local = [c \in Callers |-> NoLocals]

Init ==
    /\ impl = "pybank"
    /\ op = "none"
    /\ args = NoArgs
    /\ outcome = Return(Zero)
    /\ heap = [loan |-> Loan(Rat(24, 100), FromInt(6), 1),
               borrower |-> Borrower(Rat(6, 100), Zero)]
    /\ CallersIdle

Multiply ==
    /\ op = "none"
    /\ UNCHANGED callerVars
    /\ \E x \in Operands, y \in Operands :
           /\ impl' = "calculators"
           /\ op' = "multiply"
           /\ args' = [x |-> x, y |-> y]
           /\ outcome' = multiply(x, y)

Divide ==
    /\ op = "none"
    /\ UNCHANGED callerVars
    /\ \E x \in Operands, y \in Operands :
           /\ impl' = "calculators"
           /\ op' = "divide"
           /\ args' = [x |-> x, y |-> y]
           /\ outcome' = divide(x, y)

CalculateMonthlyInterestRate ==
    /\ op = "none"
    /\ UNCHANGED callerVars
    /\ \E i \in Impls, rate \in Rates \cup Operands :
           /\ impl' = i
           /\ op' = "calculate_monthly_interest_rate"
           /\ args' = [annual_interest_rate |-> rate]
           /\ outcome' = IF i = "pybank"
                         THEN calculate_monthly_interest_rate(rate)
                         ELSE src_calculate_monthly_interest_rate(rate)

MonthsFromYears ==
    /\ op = "none"
    /\ UNCHANGED callerVars
    /\ \E i \in Impls, years \in Years :
           /\ impl' = i
           /\ op' = "months_from_years"
           /\ args' = [years |-> years]
           /\ outcome' = IF i = "pybank"
                         THEN months_from_years(years)
                         ELSE src_months_from_years(years)

MonthlyPayment ==
    /\ op = "none"
    /\ UNCHANGED callerVars
    /\ \E i \in Impls, principal \in Amounts, rate \in Rates, years \in Years,
          up \in BOOLEAN :
           /\ InRange(rate, years)
           /\ impl' = i
           /\ op' = "monthly_payment"
           /\ args' = [loan |-> Loan(principal, rate, years), up |-> up]
           /\ outcome' = IF i = "pybank"
                         THEN monthly_payment(Loan(principal, rate, years), up)
                         ELSE src_monthly_payment(Loan(principal, rate, years), up)

LoanAmount ==
    /\ op = "none"
    /\ UNCHANGED callerVars
    /\ \E i \in Impls, payment \in Amounts, rate \in Rates, years \in Years,
          up \in BOOLEAN :
           /\ InRange(rate, years)
           /\ impl' = i
           /\ op' = "loan_amount"
           /\ args' = [monthly_payment |-> payment, annual_interest_rate |-> rate,
                       years |-> years, up |-> up]
           /\ outcome' = IF i = "pybank"
                         THEN loan_amount(payment, rate, years, up)
                         ELSE src_loan_amount(payment, rate, years, up)

\* given = FALSE: the caller passes no max_dti, and the default applies
MaxMonthlyHousingPayment ==
    /\ op = "none"
    /\ UNCHANGED callerVars
    /\ \E i \in Impls, income \in Incomes, debt \in Debts, dti \in Dtis,
          given \in BOOLEAN, up \in BOOLEAN :
           LET max_dti == IF given THEN dti ELSE DEFAULT_MAX_DTI
           IN  /\ (~given => dti = Zero)
               /\ impl' = i
               /\ op' = "max_monthly_housing_payment"
               /\ args' = [borrower |-> Borrower(income, debt), given |-> given,
                           max_dti |-> dti, up |-> up]
               /\ outcome' = IF i = "pybank"
                             THEN max_monthly_housing_payment(
                                      Borrower(income, debt), max_dti, up)
                             ELSE src_max_monthly_housing_payment(
                                      Borrower(income, debt), max_dti, up)

MaxLoanAmount ==
    /\ op = "none"
    /\ UNCHANGED callerVars
    /\ \E i \in Impls, income \in Incomes, debt \in Debts, dti \in Dtis,
          given \in BOOLEAN, rate \in Rates, years \in Years,
          up1 \in BOOLEAN, up2 \in BOOLEAN :
           LET max_dti == IF given THEN dti ELSE DEFAULT_MAX_DTI
           IN  /\ (~given => dti = Zero)
               /\ InRange(rate, years)
               /\ impl' = i
               /\ op' = "max_loan_amount"
               /\ args' = [borrower |-> Borrower(income, debt), given |-> given,
                           max_dti |-> dti, annual_interest_rate |-> rate,
                           years |-> years, up1 |-> up1, up2 |-> up2]
               /\ outcome' = IF i = "pybank"
                             THEN max_loan_amount(Borrower(income, debt), rate,
                                                  years, max_dti, up1, up2)
                             ELSE src_max_loan_amount(Borrower(income, debt), rate,
                                                      years, max_dti, up1, up2)

Next ==
    \/ Multiply
    \/ Divide
    \/ CalculateMonthlyInterestRate
    \/ MonthsFromYears
    \/ MonthlyPayment
    \/ LoanAmount
    \/ MaxMonthlyHousingPayment
    \/ MaxLoanAmount

Spec == Init /\ [][Next]_vars

(***************************************************************************)
(* The calls of concurrent callers, statement by statement (pybank copy).  *)
(* frame[c].pc is the statement caller c is at; max_loan_amount runs the   *)
(* statements of max_monthly_housing_payment and then those of loan_amount.*)
(***************************************************************************)
CallOps ==
    {"multiply", "divide", "calculate_monthly_interest_rate",
     "months_from_years", "monthly_payment", "loan_amount",
     "max_monthly_housing_payment", "max_loan_amount"}

\* the arguments the callers choose from
ArgsOf(o) ==
    CASE o = "multiply" -> {[NoArg EXCEPT !.x = Rat(3, 2), !.y = Rat(1, 2)]}
      [] o = "divide" -> {[NoArg EXCEPT !.x = Rat(3, 2), !.y = Zero]}
      [] o = "calculate_monthly_interest_rate" ->
           {[NoArg EXCEPT !.annual_interest_rate = FromInt(-6)]}
      [] o = "months_from_years" -> {[NoArg EXCEPT !.years = 1]}
      [] o = "monthly_payment" -> {[NoArg EXCEPT !.up1 = TRUE]}
      [] o = "loan_amount" ->
           {[NoArg EXCEPT !.payment = Rat(12, 100), !.annual_interest_rate = r,
                          !.years = 1, !.up1 = TRUE] : r \in {Zero, FromInt(6)}}
      [] o = "max_monthly_housing_payment" -> {NoArg}
      [] o = "max_loan_amount" ->
           {[NoArg EXCEPT !.given = TRUE, !.max_dti = One,
                          !.annual_interest_rate = FromInt(6), !.years = 1,
                          !.up1 = TRUE, !.up2 = TRUE]}

\* the first statement of an operation
FirstPc(o) ==
    CASE o = "monthly_payment" -> "mp_validate"
      [] o = "loan_amount" -> "la_validate"
      [] o \in {"max_monthly_housing_payment", "max_loan_amount"} ->
           "mmhp_validate"
      [] OTHER -> "unit"

\* mutant: the local variables are kept in one place for all callers
locals_shared(c) == 1

\* where the local variables of caller c's call live: in its own frame
Locals(c) == c

\* the call of caller c ends with outcome o, and its local variables with it
Ends(c, o) ==
    /\ frame' = [frame EXCEPT ![c].pc = "done", ![c].outcome = o]
    /\ local' = [local EXCEPT ![Locals(c)] = NoLocals]

\* caller c goes on to statement p with the local variables l
Goes(c, p, l) ==
    /\ frame' = [frame EXCEPT ![c].pc = p]
    /\ local' = [local EXCEPT ![Locals(c)] = l]

\* the arguments of the amortization statements caller c is running
InLoanAmount(c) == frame[c].pc \in {"la_validate", "la_monthly_rate", "la_months", "la_finish"}
RateArg(c) ==
    IF InLoanAmount(c) THEN frame[c].arg.annual_interest_rate
    ELSE heap.loan.annual_interest_rate
YearsArg(c) == IF InLoanAmount(c) THEN frame[c].arg.years ELSE heap.loan.years
PaymentArg(c) ==
    IF frame[c].op = "max_loan_amount" THEN local[Locals(c)].max_payment
    ELSE frame[c].arg.payment
UpArg(c) ==
    IF frame[c].op = "max_loan_amount" THEN frame[c].arg.up2
    ELSE frame[c].arg.up1
DtiArg(c) ==
    IF frame[c].arg.given THEN frame[c].arg.max_dti ELSE DEFAULT_MAX_DTI

InitCallers ==
    /\ impl = "pybank"
    /\ op = "none"
    /\ args = NoArgs
    /\ outcome = Return(Zero)
    /\ heap \in Heaps
    /\ CallersIdle

Call(c) ==
    /\ frame[c].pc \in {"idle", "done"}
    /\ \E o \in CallOps :
         \E a \in ArgsOf(o) :
           /\ frame' = [frame EXCEPT ![c] =
                          [op |-> o, pc |-> FirstPc(o), arg |-> a,
                           seen |-> heap, outcome |-> Return(Zero)]]
           /\ local' = [local EXCEPT ![Locals(c)] = NoLocals]
    /\ UNCHANGED <<impl, op, args, outcome, heap>>

\* the arithmetic primitives and the unit conversions, one statement each
Unit(c) ==
    /\ frame[c].pc = "unit"
    /\ LET a == frame[c].arg
       IN  Ends(c, CASE frame[c].op = "multiply" -> multiply(a.x, a.y)
                     [] frame[c].op = "divide" -> divide(a.x, a.y)
                     [] frame[c].op = "calculate_monthly_interest_rate" ->
                          calculate_monthly_interest_rate(a.annual_interest_rate)
                     [] OTHER -> months_from_years(a.years))
    /\ UNCHANGED <<impl, op, args, outcome, heap>>

ValidateLoan(c) ==
    /\ frame[c].pc = "mp_validate"
    /\ LET valid == _validate_loan(heap.loan)
       IN  IF valid.ok THEN Goes(c, "mp_monthly_rate", local[Locals(c)])
           ELSE Ends(c, valid)
    /\ UNCHANGED <<impl, op, args, outcome, heap>>

ValidateLoanAmount(c) ==
    /\ frame[c].pc = "la_validate"
    /\ IF ~RPos(PaymentArg(c)) THEN Ends(c, Raise(PaymentMsg))
       ELSE IF RNegative(RateArg(c)) THEN Ends(c, Raise(NegativeRateMsg))
       ELSE IF YearsArg(c) <= 0 THEN Ends(c, Raise(TermMsg))
       ELSE Goes(c, "la_monthly_rate", local[Locals(c)])
    /\ UNCHANGED <<impl, op, args, outcome, heap>>

\* monthly_rate = calculate_monthly_interest_rate(...)
MonthlyRate(c) ==
    /\ frame[c].pc \in {"mp_monthly_rate", "la_monthly_rate"}
    /\ LET monthly_rate == calculate_monthly_interest_rate(RateArg(c))
           next == IF InLoanAmount(c) THEN "la_months" ELSE "mp_months"
       IN  IF monthly_rate.ok
           THEN Goes(c, next, [local[Locals(c)] EXCEPT
                                  !.monthly_rate = monthly_rate.val])
           ELSE Ends(c, monthly_rate)
    /\ UNCHANGED <<impl, op, args, outcome, heap>>

\* months = months_from_years(...)
Months(c) ==
    /\ frame[c].pc \in {"mp_months", "la_months"}
    /\ LET months == months_from_years(YearsArg(c))
           next == IF InLoanAmount(c) THEN "la_finish" ELSE "mp_finish"
       IN  IF months.ok
           THEN Goes(c, next, [local[Locals(c)] EXCEPT !.months = months.val])
           ELSE Ends(c, months)
    /\ UNCHANGED <<impl, op, args, outcome, heap>>

FinishMonthlyPayment(c) ==
    /\ frame[c].pc = "mp_finish"
    /\ LET l == local[Locals(c)]
           growth == RPow(RAdd(One, l.monthly_rate), Num(l.months))
           multiplier == divide(RMul(l.monthly_rate, growth), RSub(growth, One))
       IN  IF RIsZero(l.monthly_rate)
           THEN Ends(c, Return(Round2(RQuot(heap.loan.principal, l.months),
                                      frame[c].arg.up1)))
           ELSE IF ~multiplier.ok THEN Ends(c, multiplier)
           ELSE Ends(c, Return(Round2(RMul(heap.loan.principal, multiplier.val),
                                      frame[c].arg.up1)))
    /\ UNCHANGED <<impl, op, args, outcome, heap>>

FinishLoanAmount(c) ==
    /\ frame[c].pc = "la_finish"
    /\ LET l == local[Locals(c)]
           growth == RPow(RAdd(One, l.monthly_rate), Num(l.months))
       IN  IF RIsZero(l.monthly_rate)
           THEN Ends(c, Return(Round2(RMul(PaymentArg(c), l.months), UpArg(c))))
           ELSE Ends(c, Return(Round2(
                    RQuot(RMul(PaymentArg(c), RSub(growth, One)),
                          RMul(l.monthly_rate, growth)), UpArg(c))))
    /\ UNCHANGED <<impl, op, args, outcome, heap>>

ValidateBorrower(c) ==
    /\ frame[c].pc = "mmhp_validate"
    /\ LET valid == _validate_borrower(heap.borrower)
       IN  IF ~valid.ok THEN Ends(c, valid)
           ELSE IF ~(RPos(DtiArg(c)) /\ RLe(DtiArg(c), One))
                THEN Ends(c, Raise(DtiMsg))
           ELSE Goes(c, "mmhp_payment", local[Locals(c)])
    /\ UNCHANGED <<impl, op, args, outcome, heap>>

\* max_total_debt and max_housing_payment
HousingPayment(c) ==
    /\ frame[c].pc = "mmhp_payment"
    /\ LET max_total_debt == RMul(heap.borrower.monthly_income, DtiArg(c))
       IN  Goes(c, "mmhp_finish",
                [local[Locals(c)] EXCEPT !.max_housing_payment =
                    RSub(max_total_debt, heap.borrower.monthly_debt)])
    /\ UNCHANGED <<impl, op, args, outcome, heap>>

\* in max_loan_amount the payment returned is max_payment, and loan_amount
\* is called with it
FinishHousingPayment(c) ==
    /\ frame[c].pc = "mmhp_finish"
    /\ LET l == local[Locals(c)]
           rounded == Round2(l.max_housing_payment, frame[c].arg.up1)
       IN  IF ~RPos(l.max_housing_payment) THEN Ends(c, Raise(UnaffordableMsg))
           ELSE IF frame[c].op = "max_loan_amount"
                THEN Goes(c, "la_validate",
                          [NoLocals EXCEPT !.max_payment = rounded])
           ELSE Ends(c, Return(rounded))
    /\ UNCHANGED <<impl, op, args, outcome, heap>>

NextCallers ==
    \E c \in Callers :
        \/ Call(c)
        \/ Unit(c)
        \/ ValidateLoan(c)
        \/ ValidateLoanAmount(c)
        \/ MonthlyRate(c)
        \/ Months(c)
        \/ FinishMonthlyPayment(c)
        \/ FinishLoanAmount(c)
        \/ ValidateBorrower(c)
        \/ HousingPayment(c)
        \/ FinishHousingPayment(c)

SpecCallers == InitCallers /\ [][NextCallers]_vars

(***************************************************************************)
(* Vocabulary of the properties.                                           *)
(***************************************************************************)
InvalidInputMsgs ==
    {NegativeRateMsg, TermMsg, PrincipalMsg, PaymentMsg, IncomeMsg, DebtMsg,
     DtiMsg}

IsInvalidInput(o) == ~o.ok /\ o.err \in InvalidInputMsgs
IsUnaffordable(o) == ~o.ok /\ o.err = UnaffordableMsg
IsDivisionByZero(o) == ~o.ok /\ o.err = DivideByZeroMsg

\* v is x rounded to 2 decimal places: a whole number of cents, at most
\* half a cent from x
IsRounded2(v, x) ==
    /\ Den(RMul(v, FromInt(100))) = 1
    /\ RLe(RAbs(RSub(v, x)), Rat(1, 200))

ValidLoan(loan) ==
    /\ RPos(loan.principal)
    /\ ~RNegative(loan.annual_interest_rate)
    /\ loan.years > 0

ValidBorrower(b) == RPos(b.monthly_income) /\ ~RNegative(b.monthly_debt)
ValidDti(d) == RPos(d) /\ RLe(d, One)

\* the float 1 + r is 1 although r is not 0 (r is under 2^-54)
Negligible(r) == ~RIsZero(r) /\ RAdd(One, r) = One

\* the annuity factor F = ((1+r)^n - 1) / (r (1+r)^n) in real arithmetic,
\* r = rate/12, n = years*12: n when r = 0; for a negligible r > 0, where F
\* lies between n - n^2 r and n, n stands for it (an error under 2^-40)
AnnuityFactor(annual_interest_rate, years) ==
    LET r == RQuot(annual_interest_rate, FromInt(12))
        n == years * 12
        g == RPow(RAdd(One, r), n)
    IN  IF RIsZero(r) \/ Negligible(r) THEN FromInt(n)
        ELSE RQuot(RSub(g, One), RMul(r, g))

\* the max_dti a call of the affordability layer works with
EffectiveDti == IF args.given THEN args.max_dti ELSE Rat(36, 100)

\* the implementation under call
LoanAmountOf(i, payment, rate, years, up) ==
    IF i = "pybank" THEN loan_amount(payment, rate, years, up)
    ELSE src_loan_amount(payment, rate, years, up)

HousingPaymentOf(i, borrower, max_dti, up) ==
    IF i = "pybank" THEN max_monthly_housing_payment(borrower, max_dti, up)
    ELSE src_max_monthly_housing_payment(borrower, max_dti, up)

(***************************************************************************)
(* C1.  For every loan with principal > 0, rate >= 0 and years > 0,        *)
(* monthly_payment returns principal / n when r = 0 and                    *)
(* principal * r (1+r)^n / ((1+r)^n - 1) otherwise (r = rate/12,           *)
(* n = years*12), rounded to 2 decimal places.  Both are principal / F.    *)
(***************************************************************************)
C1_MonthlyPaymentFormula ==
    (op = "monthly_payment" /\ ValidLoan(args.loan)) =>
        LET loan == args.loan
            exact == RQuot(loan.principal,
                           AnnuityFactor(loan.annual_interest_rate, loan.years))
        IN  outcome.ok /\ IsRounded2(outcome.val, exact)

\* what holds of C1: the same, for the rates that are 0 or not negligible
MonthlyPaymentFormulaWhenRateCounts ==
    (/\ op = "monthly_payment"
     /\ ValidLoan(args.loan)
     /\ ~Negligible(RQuot(args.loan.annual_interest_rate, FromInt(12)))) =>
        LET loan == args.loan
            exact == RQuot(loan.principal,
                           AnnuityFactor(loan.annual_interest_rate, loan.years))
        IN  outcome.ok /\ IsRounded2(outcome.val, exact)

\* at a negligible rate the denominator (1+r)^n - 1 is 0
MonthlyPaymentDividesByZero ==
    (/\ op = "monthly_payment"
     /\ ValidLoan(args.loan)
     /\ Negligible(RQuot(args.loan.annual_interest_rate, FromInt(12)))) =>
        outcome = Raise(DivideByZeroMsg)

(***************************************************************************)
(* C2.  For every monthly_payment > 0, rate >= 0 and years > 0,            *)
(* loan_amount returns payment * n when r = 0 and                          *)
(* payment * ((1+r)^n - 1) / (r (1+r)^n) otherwise, rounded to 2 decimal   *)
(* places.  Both are payment * F.                                          *)
(***************************************************************************)
C2_LoanAmountFormula ==
    (/\ op = "loan_amount"
     /\ RPos(args.monthly_payment)
     /\ ~RNegative(args.annual_interest_rate)
     /\ args.years > 0) =>
        LET exact == RMul(args.monthly_payment,
                          AnnuityFactor(args.annual_interest_rate, args.years))
        IN  outcome.ok /\ IsRounded2(outcome.val, exact)

\* what holds of C2: the same, for the rates that are 0 or not negligible
LoanAmountFormulaWhenRateCounts ==
    (/\ op = "loan_amount"
     /\ RPos(args.monthly_payment)
     /\ ~RNegative(args.annual_interest_rate)
     /\ args.years > 0
     /\ ~Negligible(RQuot(args.annual_interest_rate, FromInt(12)))) =>
        LET exact == RMul(args.monthly_payment,
                          AnnuityFactor(args.annual_interest_rate, args.years))
        IN  outcome.ok /\ IsRounded2(outcome.val, exact)

\* at a negligible rate the numerator payment * ((1+r)^n - 1) is 0
LoanAmountVanishes ==
    (/\ op = "loan_amount"
     /\ RPos(args.monthly_payment)
     /\ args.years > 0
     /\ Negligible(RQuot(args.annual_interest_rate, FromInt(12)))) =>
        outcome = Return(Zero)

(***************************************************************************)
(* C3.  Round trip: for all principal > 0, rate >= 0 and years > 0,        *)
(* loan_amount(monthly_payment(loan), rate, years) returns the principal   *)
(* within rounding tolerance (here the widest one rounding can account     *)
(* for: half a cent on the payment, carried through the annuity factor,    *)
(* and half a cent on the result).                                         *)
(***************************************************************************)
RoundTripTolerance(loan) ==
    RMul(Rat(1, 200),
         RAdd(AnnuityFactor(loan.annual_interest_rate, loan.years), One))

RoundTripWithin(loan, payment, up) ==
    LET back == LoanAmountOf(impl, payment, loan.annual_interest_rate,
                             loan.years, up)
    IN  /\ back.ok
        /\ RLe(RAbs(RSub(back.val, loan.principal)), RoundTripTolerance(loan))

C3_RoundTripEveryLoan ==
    (op = "monthly_payment" /\ ValidLoan(args.loan)) =>
        /\ outcome.ok
        /\ \A up \in BOOLEAN : RoundTripWithin(args.loan, outcome.val, up)

\* what holds of C3: whenever monthly_payment returns a payment of at least
\* 0.01 the round trip is within 0.005 * (F + 1) of the principal, and a
\* payment of 0.00 is rejected by loan_amount
RoundTripWhenPaymentPositive ==
    (op = "monthly_payment" /\ ValidLoan(args.loan) /\ outcome.ok) =>
        \A up \in BOOLEAN :
            IF RPos(outcome.val)
            THEN RoundTripWithin(args.loan, outcome.val, up)
            ELSE LoanAmountOf(impl, outcome.val,
                              args.loan.annual_interest_rate,
                              args.loan.years, up) = Raise(PaymentMsg)

(***************************************************************************)
(* C4.  max_monthly_housing_payment with a valid borrower and a valid      *)
(* max_dti computes payment = monthly_income * max_dti - monthly_debt,     *)
(* fails as Unaffordable when payment <= 0 (0 included) and otherwise      *)
(* returns payment rounded to 2 decimals; max_dti is 0.36 when not given.  *)
(***************************************************************************)
C4_HousingPayment ==
    (/\ op = "max_monthly_housing_payment"
     /\ ValidBorrower(args.borrower)
     /\ ValidDti(EffectiveDti)) =>
        LET payment == RSub(RMul(args.borrower.monthly_income, EffectiveDti),
                            args.borrower.monthly_debt)
        IN  IF RLe(payment, Zero) THEN IsUnaffordable(outcome)
            ELSE outcome.ok /\ IsRounded2(outcome.val, payment)

\* income 0.04 at a ratio of 1/4 against a debt of 0.01: payment exactly 0
C4_Witness ==
    /\ op = "max_monthly_housing_payment"
    /\ args.borrower = Borrower(Rat(4, 100), Rat(1, 100))
    /\ args.given
    /\ args.max_dti = Rat(1, 4)
    /\ outcome = Raise(UnaffordableMsg)

(***************************************************************************)
(* C5.  Composition: whenever both steps succeed, max_loan_amount(borrower,*)
(* rate, years, max_dti) returns exactly                                   *)
(* loan_amount(max_monthly_housing_payment(borrower, max_dti), rate, years)*)
(***************************************************************************)
C5_Composition ==
    op = "max_loan_amount" =>
        LET payment == HousingPaymentOf(impl, args.borrower, EffectiveDti,
                                        args.up1)
            principal == LoanAmountOf(impl, payment.val,
                                      args.annual_interest_rate, args.years,
                                      args.up2)
        IN  (payment.ok /\ principal.ok) => outcome = Return(principal.val)

\* income 0.06 at a ratio of 1 leaves 0.06 a month, which lends 0.12 at a
\* monthly rate of 1/2 over 12 months
C5_Witness ==
    /\ op = "max_loan_amount"
    /\ args.borrower = Borrower(Rat(6, 100), Zero)
    /\ args.given
    /\ args.max_dti = One
    /\ args.annual_interest_rate = FromInt(6)
    /\ args.years = 1
    /\ outcome = Return(Rat(12, 100))

(***************************************************************************)
(* C6.  max_loan_amount fails exactly when max_monthly_housing_payment     *)
(* fails or loan_amount on its payment fails, with that same error and no  *)
(* result; the affordability step runs first, so its error is the one      *)
(* reported when the rate or the years are invalid too.                    *)
(***************************************************************************)
C6_ErrorPropagation ==
    op = "max_loan_amount" =>
        LET payment == HousingPaymentOf(impl, args.borrower, EffectiveDti,
                                        args.up1)
            principal == LoanAmountOf(impl, payment.val,
                                      args.annual_interest_rate, args.years,
                                      args.up2)
        IN  /\ ~outcome.ok <=> (~payment.ok \/ ~principal.ok)
            /\ ~payment.ok => outcome = Raise(payment.err)
            /\ (payment.ok /\ ~principal.ok) => outcome = Raise(principal.err)

\* no income and a negative rate: the income is what is reported
C6_Witness ==
    /\ op = "max_loan_amount"
    /\ args.borrower.monthly_income = Zero
    /\ RNegative(args.annual_interest_rate)
    /\ args.years <= 0
    /\ outcome = Raise(IncomeMsg)

(***************************************************************************)
(* C7.  monthly_payment fails with InvalidInput, with no payment, whenever *)
(* principal <= 0 or rate < 0 or years <= 0, and for no other loan.        *)
(***************************************************************************)
C7_MonthlyPaymentValidation ==
    op = "monthly_payment" =>
        IF ValidLoan(args.loan) THEN ~IsInvalidInput(outcome)
        ELSE IsInvalidInput(outcome) /\ outcome.val = Zero

\* a loan of nothing
C7_Witness ==
    /\ op = "monthly_payment"
    /\ args.loan = Loan(Zero, FromInt(6), 1)
    /\ outcome = Raise(PrincipalMsg)

(***************************************************************************)
(* C8.  loan_amount fails with InvalidInput, with no principal, whenever   *)
(* monthly_payment <= 0 or rate < 0 or years <= 0, and for no other input. *)
(***************************************************************************)
C8_LoanAmountValidation ==
    op = "loan_amount" =>
        IF /\ RPos(args.monthly_payment)
           /\ ~RNegative(args.annual_interest_rate)
           /\ args.years > 0
        THEN ~IsInvalidInput(outcome)
        ELSE IsInvalidInput(outcome) /\ outcome.val = Zero

\* a payment of nothing
C8_Witness ==
    /\ op = "loan_amount"
    /\ args.monthly_payment = Zero
    /\ args.annual_interest_rate = FromInt(6)
    /\ args.years = 1
    /\ outcome = Raise(PaymentMsg)

(***************************************************************************)
(* C9.  max_monthly_housing_payment fails with InvalidInput whenever       *)
(* monthly_income <= 0 or monthly_debt < 0 or max_dti is outside (0, 1]    *)
(* (0 rejected, 1 accepted), also when the input is unaffordable as well;  *)
(* Unaffordable is raised only for a valid borrower and a valid max_dti.   *)
(***************************************************************************)
C9_HousingPaymentValidation ==
    op = "max_monthly_housing_payment" =>
        IF ValidBorrower(args.borrower) /\ ValidDti(EffectiveDti)
        THEN ~IsInvalidInput(outcome)
        ELSE IsInvalidInput(outcome) /\ ~IsUnaffordable(outcome)

\* a ratio of 0 against a debt: nothing affordable, and the ratio is reported
C9_Witness ==
    /\ op = "max_monthly_housing_payment"
    /\ args.borrower = Borrower(Rat(6, 100), Rat(1, 100))
    /\ args.given
    /\ args.max_dti = Zero
    /\ outcome = Raise(DtiMsg)

(***************************************************************************)
(* C10.  In every implementation, calculate_monthly_interest_rate returns  *)
(* annual_rate / 12 for every annual_rate >= 0 and fails with InvalidInput *)
(* for every annual_rate < 0.                                              *)
(***************************************************************************)
C10_MonthlyRateEveryImplementation ==
    op = "calculate_monthly_interest_rate" =>
        IF RNegative(args.annual_interest_rate) THEN IsInvalidInput(outcome)
        ELSE outcome = Return(RQuot(args.annual_interest_rate, FromInt(12)))

(***************************************************************************)
(* C11.  In every implementation, months_from_years returns years * 12 for *)
(* every years > 0 and fails with InvalidInput for every years <= 0.       *)
(***************************************************************************)
C11_MonthsEveryImplementation ==
    op = "months_from_years" =>
        IF args.years <= 0 THEN IsInvalidInput(outcome)
        ELSE outcome = Return(FromInt(args.years * 12))

\* what holds of C11: the same, of the pybank copy
MonthsOfPybank ==
    (op = "months_from_years" /\ impl = "pybank") =>
        IF args.years <= 0 THEN outcome = Raise(TermMsg)
        ELSE outcome = Return(FromInt(args.years * 12))

\* the src/calculators copy multiplies whatever it is given
MonthsOfCalculators ==
    (op = "months_from_years" /\ impl = "calculators") =>
        outcome = Return(FromInt(args.years * 12))

(***************************************************************************)
(* C12.  divide(x, y) fails with the division-by-zero error for every x    *)
(* when y = 0 and returns the quotient x / y (the number whose product     *)
(* with y is x) for every y # 0; multiply(x, y) returns x * y and never    *)
(* fails.                                                                  *)
(***************************************************************************)
C12_DivideAndMultiply ==
    /\ op = "divide" =>
           IF RIsZero(args.y) THEN outcome = Raise(DivideByZeroMsg)
           ELSE outcome.ok /\ RMul(outcome.val, args.y) = args.x
    /\ op = "multiply" =>
           /\ outcome.ok
           /\ outcome.val = Rat(Num(args.x) * Num(args.y),
                                Den(args.x) * Den(args.y))

\* 0 / 0 is refused as any other division by zero
C12_Witness ==
    /\ op = "divide"
    /\ args.x = Zero
    /\ args.y = Zero
    /\ outcome = Raise(DivideByZeroMsg)

(***************************************************************************)
(* C13.  Every operation is pure: across any sequence or interleaving of   *)
(* calls from several callers, the outcome of each call is the outcome of  *)
(* the same call made alone on its own arguments, the Loan and the         *)
(* Borrower passed to it are left unchanged, and no step of one caller     *)
(* touches what another caller's call reads or writes.                     *)
(***************************************************************************)
\* the outcome of the call of frame f, made alone
Isolated(f) ==
    LET a == f.arg
        max_dti == IF a.given THEN a.max_dti ELSE DEFAULT_MAX_DTI
    IN  CASE f.op = "multiply" -> multiply(a.x, a.y)
          [] f.op = "divide" -> divide(a.x, a.y)
          [] f.op = "calculate_monthly_interest_rate" ->
               calculate_monthly_interest_rate(a.annual_interest_rate)
          [] f.op = "months_from_years" -> months_from_years(a.years)
          [] f.op = "monthly_payment" -> monthly_payment(f.seen.loan, a.up1)
          [] f.op = "loan_amount" ->
               loan_amount(a.payment, a.annual_interest_rate, a.years, a.up1)
          [] f.op = "max_monthly_housing_payment" ->
               max_monthly_housing_payment(f.seen.borrower, max_dti, a.up1)
          [] f.op = "max_loan_amount" ->
               max_loan_amount(f.seen.borrower, a.annual_interest_rate, a.years,
                               max_dti, a.up1, a.up2)

PureOutcomes ==
    \A c \in Callers :
        frame[c].pc = "done" =>
            /\ frame[c].outcome = Isolated(frame[c])
            /\ heap = frame[c].seen

\* caller c's call or its local variables change in this step
Touched(c) == frame'[c] # frame[c] \/ local'[c] # local[c]

NothingShared ==
    /\ heap' = heap
    /\ \A c \in Callers, d \in Callers : c # d => ~(Touched(c) /\ Touched(d))

C13_Purity == []PureOutcomes /\ [][NothingShared]_vars

\* caller 1 has its loan of 0.24 for 0.12 a month at a monthly rate of 1/2
\* while caller 2 is inside loan_amount at rate 0
C13_Witness ==
    /\ frame[1].op = "loan_amount"
    /\ frame[1].pc = "done"
    /\ frame[1].arg.annual_interest_rate = FromInt(6)
    /\ frame[1].outcome = Return(Rat(24, 100))
    /\ frame[2].op = "loan_amount"
    /\ frame[2].pc = "la_finish"
    /\ frame[2].arg.annual_interest_rate = Zero
    /\ local[2].months = FromInt(12)

(***************************************************************************)
(* C14.  Totality on valid inputs: for every loan with principal > 0,      *)
(* rate >= 0 and years > 0, monthly_payment returns a payment and raises   *)
(* no error; on the non-zero-rate branch the denominator (1+r)^n - 1       *)
(* passed to divide is never zero, and likewise loan_amount's divisor      *)
(* r (1+r)^n is never zero on valid inputs.                                *)
(***************************************************************************)
\* (1 + r) ** n as the code computes it, r = rate/12, n = years*12
Growth(annual_interest_rate, years) ==
    RPow(RAdd(One, RQuot(annual_interest_rate, FromInt(12))), years * 12)

C14_TotalOnValidInputs ==
    /\ (op = "monthly_payment" /\ ValidLoan(args.loan)) =>
           /\ outcome.ok
           /\ ~IsDivisionByZero(outcome)
           /\ ~RIsZero(args.loan.annual_interest_rate) =>
                  ~RIsZero(RSub(Growth(args.loan.annual_interest_rate,
                                       args.loan.years), One))
    /\ (/\ op = "loan_amount"
        /\ RPos(args.monthly_payment)
        /\ ~RNegative(args.annual_interest_rate)
        /\ args.years > 0) =>
           /\ outcome.ok
           /\ ~RIsZero(args.annual_interest_rate) =>
                  ~RIsZero(RMul(RQuot(args.annual_interest_rate, FromInt(12)),
                                Growth(args.annual_interest_rate, args.years)))

\* what holds of C14: loan_amount is total on valid inputs, its divisor is
\* never zero; monthly_payment is total at the rates that are 0 or not
\* negligible (at the others, see MonthlyPaymentDividesByZero)
TotalWhenRateCounts ==
    /\ (/\ op = "monthly_payment"
        /\ ValidLoan(args.loan)
        /\ ~Negligible(RQuot(args.loan.annual_interest_rate, FromInt(12)))) =>
           /\ outcome.ok
           /\ ~RIsZero(args.loan.annual_interest_rate) =>
                  ~RIsZero(RSub(Growth(args.loan.annual_interest_rate,
                                       args.loan.years), One))
    /\ (/\ op = "loan_amount"
        /\ RPos(args.monthly_payment)
        /\ ~RNegative(args.annual_interest_rate)
        /\ args.years > 0) =>
           /\ outcome.ok
           /\ ~RIsZero(args.annual_interest_rate) =>
                  ~RIsZero(RMul(RQuot(args.annual_interest_rate, FromInt(12)),
                                Growth(args.annual_interest_rate, args.years)))

(***************************************************************************)
(* C15.  Every value returned by max_monthly_housing_payment is strictly   *)
(* greater than 0 after rounding to 2 decimals; so for a valid borrower    *)
(* (and max_dti) and valid rate and years, max_loan_amount either fails as *)
(* Unaffordable or returns a principal, and never fails loan_amount's      *)
(* check of the payment.                                                   *)
(***************************************************************************)
C15_HousingPaymentPositive ==
    /\ (op = "max_monthly_housing_payment" /\ outcome.ok) => RPos(outcome.val)
    /\ (/\ op = "max_loan_amount"
        /\ ValidBorrower(args.borrower)
        /\ ValidDti(EffectiveDti)
        /\ ~RNegative(args.annual_interest_rate)
        /\ args.years > 0) =>
           /\ IsUnaffordable(outcome) \/ outcome.ok
           /\ outcome # Raise(PaymentMsg)

\* what holds of C15: the value returned is 0.00 when the payment is positive
\* but under half a cent (or half a cent, rounded down), and positive
\* otherwise; max_loan_amount then fails loan_amount's check of the payment
HousingPaymentRoundsToZero ==
    LET payment == RSub(RMul(args.borrower.monthly_income, EffectiveDti),
                        args.borrower.monthly_debt)
        valid == ValidBorrower(args.borrower) /\ ValidDti(EffectiveDti)
        tiny == RPos(payment) /\ Round2(payment, args.up) = Zero
        tiny1 == RPos(payment) /\ Round2(payment, args.up1) = Zero
    IN  /\ (op = "max_monthly_housing_payment" /\ valid /\ tiny) =>
               outcome = Return(Zero)
        /\ (op = "max_monthly_housing_payment" /\ outcome.ok /\ ~tiny) =>
               RPos(outcome.val)
        /\ (/\ op = "max_loan_amount"
            /\ valid
            /\ ~RNegative(args.annual_interest_rate)
            /\ args.years > 0) =>
               IF RLe(payment, Zero) THEN IsUnaffordable(outcome)
               ELSE IF tiny1 THEN outcome = Raise(PaymentMsg)
               ELSE outcome.ok

(***************************************************************************)
(* C16.  At the amortization and affordability layer the two copies agree: *)
(* on the arguments of every call of monthly_payment, loan_amount,         *)
(* max_monthly_housing_payment and max_loan_amount, the pybank function    *)
(* fails if and only if the src/calculators function fails, and when they  *)
(* return they return the same value; the call's outcome is the one of the *)
(* copy that was called.                                                   *)
(***************************************************************************)
LayerOps == {"monthly_payment", "loan_amount", "max_monthly_housing_payment", "max_loan_amount"}

\* the outcome of the state's call, had it been made on the pybank copy
OutcomeOfPybank ==
    CASE op = "monthly_payment" -> monthly_payment(args.loan, args.up)
      [] op = "loan_amount" ->
             loan_amount(args.monthly_payment, args.annual_interest_rate,
                         args.years, args.up)
      [] op = "max_monthly_housing_payment" ->
             max_monthly_housing_payment(args.borrower, EffectiveDti, args.up)
      [] op = "max_loan_amount" ->
             max_loan_amount(args.borrower, args.annual_interest_rate,
                             args.years, EffectiveDti, args.up1, args.up2)

\* the outcome of the state's call, had it been made on the src/calculators copy
OutcomeOfCalculators ==
    CASE op = "monthly_payment" -> src_monthly_payment(args.loan, args.up)
      [] op = "loan_amount" ->
             src_loan_amount(args.monthly_payment, args.annual_interest_rate,
                             args.years, args.up)
      [] op = "max_monthly_housing_payment" ->
             src_max_monthly_housing_payment(args.borrower, EffectiveDti, args.up)
      [] op = "max_loan_amount" ->
             src_max_loan_amount(args.borrower, args.annual_interest_rate,
                                 args.years, EffectiveDti, args.up1, args.up2)

CopiesFailAlike == op \in LayerOps => OutcomeOfPybank = OutcomeOfCalculators

\* a call on which both copies return the same principal
CopiesReturnAlike ==
    /\ impl = "calculators"
    /\ op = "max_loan_amount"
    /\ outcome.ok
    /\ RPos(args.annual_interest_rate)
    /\ outcome = OutcomeOfPybank

====
